---- MODULE Spec2Model ----
(***************************************************************************)
(* Backfill pipeline of etl/backfill_routes_aircraft_changes.py: the       *)
(* tables airline.flights, airline.routes, airline.airports,               *)
(* airline.aircraft and airline.flight_changes, and one action per stage   *)
(* function.  A table with a serial primary key is a sequence whose index  *)
(* is the key (no stage deletes a row).  SQL NULL is the value NULL.       *)
(* With it, the reference loader of etl/load_openflights.py (section 5)    *)
(* and generate_booking_payloads of etl/synth_revenue.py (section 6).      *)
(***************************************************************************)
EXTENDS Integers, Sequences, FiniteSets, TLC

VARIABLES flights, routes, airports, aircraft, flight_changes, last, prev,
          pc, env, ENGINE, schema, begun,
          airlines, files,
          passenger_ids, flight_ids, n_bookings, used_pairs, bookings, attempts

\* The store and the two history variables: last is the report of the
\* last stage, prev the store as that stage found it.
store == <<flights, routes, airports, aircraft, flight_changes>>

\* The state of load_openflights.py: the table airline.airlines and the
\* two files of the data directory.
loader == <<airlines, files>>

\* The arguments and local variables of generate_booking_payloads of
\* synth_revenue.py.
revenue == <<passenger_ids, flight_ids, n_bookings, used_pairs, bookings, attempts>>

\* ENGINE and env are the module's engine and the environment it was
\* made from, pc is the position of each script invocation, schema the
\* constraints of the store, begun the store as the first run() found it;
\* with them, the state of the other scripts.
ctl == <<pc, env, ENGINE, schema, begun, loader, revenue>>

vars == <<flights, routes, airports, aircraft, flight_changes, last, prev, pc, env, ENGINE, schema, begun, airlines, files, passenger_ids, flight_ids, n_bookings, used_pairs, bookings, attempts>>

\* ------------------------------------------------------------------
\* Bounds of the model
\* ------------------------------------------------------------------
NumFlights == 2
MaxChanges == 2
MaxPipelineChanges == 1
MaxRuns == 2

NULL == 0 - 1

FlightIds  == 1..NumFlights
\* One airline and two airports: the routes 1 -> 2, 2 -> 1, 1 -> 1, 2 -> 2.
AirlineIds == {1}
AirportIds == {1, 2}

\* random() returns a double in [0, 1); the draws are in thousandths.
Rand == {0, 999}
\* change_fraction values in thousandths: 0, the default 0.05 of run(), 1.
Fractions == {0, 50, 1000}
\* The two draws of one inserted change row, for its reason and for its
\* offset, in hundred-thousandths: least and greatest.  random() is a
\* double, finer than the tick of a timestamp (a microsecond in the store,
\* a second here).
RowDraws == { <<0, 99999>>, <<99999, 0>> }

Range(s) == {s[i] : i \in DOMAIN s}

\* All orders in which the rows of a set can be produced by a SELECT
\* without ORDER BY.
Orders(S) == {s \in [1..Cardinality(S) -> S] : \A i, j \in 1..Cardinality(S) : s[i] = s[j] => i = j}

\* ------------------------------------------------------------------
\* Rows
\* ------------------------------------------------------------------
Key(row) == <<row.airline_id, row.origin_airport_id, row.destination_airport_id>>

RouteRow(k, d) == [airline_id |-> k[1], origin_airport_id |-> k[2], destination_airport_id |-> k[3], distance_nm |-> d]

AircraftRow(mf, md, seats) == [manufacturer |-> mf, model |-> md, seat_capacity |-> seats, tail_number |-> NULL]

\* The VALUES list of backfill_aircraft.
SeedFleet == << AircraftRow("Airbus", "A320", 150), AircraftRow("Boeing", "737-800", 165), AircraftRow("Airbus", "A321", 185), AircraftRow("Boeing", "787-8", 242), AircraftRow("Airbus", "A350-900", 300) >>

\* The ARRAY of reasons of generate_flight_changes.
Reasons == << "Maintenance", "Crew Reassignment", "Operational", "Equipment Downgrade" >>

\* Observable state of the store that a stage's report is compared with.
Snapshot == [flights |-> flights, routes |-> routes, aircraft |-> aircraft, nchanges |-> Len(flight_changes)]

\* What a stage prints: its row counts; again tells that the stage before it
\* was the same stage with the same argument.
Report(op, arg, n, n2) == [op |-> op, arg |-> arg, rowcount |-> n, rowcount2 |-> n2, again |-> last.op = op /\ last.arg = arg]

\* ------------------------------------------------------------------
\* 1. ROUTES
\* ------------------------------------------------------------------

\* SQL equality: NULL = x is never true.
SqlEq(a, b) == a # NULL /\ b # NULL /\ a = b

RouteMatchesSwapped(f, r) == /\ SqlEq(r.airline_id, f.airline_id)
                             /\ SqlEq(r.origin_airport_id, f.destination_airport_id)
                             /\ SqlEq(r.destination_airport_id, f.origin_airport_id)

RouteMatchesCarrierOnly(f, r) == SqlEq(r.airline_id, f.airline_id)

RouteMatches(f, r) == /\ SqlEq(r.airline_id, f.airline_id)
                      /\ SqlEq(r.origin_airport_id, f.origin_airport_id)
                      /\ SqlEq(r.destination_airport_id, f.destination_airport_id)

\* f.airline_id IS NOT NULL AND f.origin_airport_id IS NOT NULL AND
\* f.destination_airport_id IS NOT NULL
HasKey(f) == f.airline_id # NULL /\ f.origin_airport_id # NULL /\ f.destination_airport_id # NULL

\* LEFT JOIN routes r ON ... WHERE r.route_id IS NULL
HasNoRoute(f, rt) == \A i \in DOMAIN rt : ~RouteMatches(f, rt[i])

MissingRouteKeysNoAntiJoin(fl, rt) == { Key(fl[f]) : f \in { g \in DOMAIN fl : HasKey(fl[g]) } }

MissingRouteKeysNullDestination(fl, rt) ==
    { Key(fl[f]) : f \in { g \in DOMAIN fl : HasNoRoute(fl[g], rt) /\ fl[g].airline_id # NULL /\ fl[g].origin_airport_id # NULL } }

\* SELECT DISTINCT f.airline_id, f.origin_airport_id, f.destination_airport_id
\* of the flights that have the key and no route.
MissingRouteKeys(fl, rt) == { Key(fl[f]) : f \in { g \in DOMAIN fl : HasNoRoute(fl[g], rt) /\ HasKey(fl[g]) } }

\* The INSERT of backfill_routes_from_flights: the missing keys, in the
\* order the SELECT produced them, each with distance_nm NULL.
InsertRoutes(rt, order) == rt \o [i \in DOMAIN order |-> RouteRow(order[i], NULL)]

\* ------------------------------------------------------------------
\* Great-circle distance of compute_route_distances.  PostgreSQL evaluates
\* the expression in double precision; here a real x >= 0 is the integer
\* floor(x * 10^9), kept below 2^31, and coordinates are whole degrees.
\* ------------------------------------------------------------------
Unit == 1000000000

Abs(x) == IF x < 0 THEN 0 - x ELSE x

Limb(a, i) == (a \div (1000 ^ i)) % 1000

\* a * b / Unit for 0 <= a, b < 2^31, without an intermediate product
\* above 2^31: schoolbook multiplication on base-1000 digits.
MulFix(a, b) ==
    LET P(n) == IF n = 0 THEN Limb(a, 0) * Limb(b, 0)
                ELSE IF n = 1 THEN Limb(a, 0) * Limb(b, 1) + Limb(a, 1) * Limb(b, 0)
                ELSE IF n = 2 THEN Limb(a, 0) * Limb(b, 2) + Limb(a, 1) * Limb(b, 1) + Limb(a, 2) * Limb(b, 0)
                ELSE IF n = 3 THEN Limb(a, 0) * Limb(b, 3) + Limb(a, 1) * Limb(b, 2) + Limb(a, 2) * Limb(b, 1) + Limb(a, 3) * Limb(b, 0)
                ELSE IF n = 4 THEN Limb(a, 1) * Limb(b, 3) + Limb(a, 2) * Limb(b, 2) + Limb(a, 3) * Limb(b, 1)
                ELSE IF n = 5 THEN Limb(a, 2) * Limb(b, 3) + Limb(a, 3) * Limb(b, 2)
                ELSE Limb(a, 3) * Limb(b, 3)
        carry == (((P(0) \div 1000) + P(1)) \div 1000 + P(2)) \div 1000
    IN  carry + P(3) + 1000 * P(4) + 1000000 * P(5) + Unit * P(6)

\* radians(deg) / 2 for a whole number of degrees deg >= 0:
\* pi / 360 = 0.008726646259...
HalfRadians(deg) == deg * 8726646 + (deg * 2597) \div 10000

\* radians(deg) for 0 <= deg <= 90: pi / 180 = 0.017453292519...
Radians(deg) == deg * 17453292 + (deg * 5199) \div 10000

\* Taylor series of sin and cos on [0, pi/2], summed until the term vanishes.
RECURSIVE SinTerms(_, _, _)
SinTerms(x, term, k) ==
    IF term = 0 THEN 0
    ELSE term - SinTerms(x, MulFix(MulFix(term \div (2 * k + 2), x), x) \div (2 * k + 3), k + 1)

Sin(x) == SinTerms(x, x, 0)

RECURSIVE CosTerms(_, _, _)
CosTerms(x, term, k) ==
    IF term = 0 THEN 0
    ELSE term - CosTerms(x, MulFix(MulFix(term \div (2 * k + 2), x), x) \div (2 * k + 1), k + 1)

Cos(x) == CosTerms(x, Unit, 0)

\* sqrt(a) for 0 <= a <= 1: the largest y with y * y <= a, by bisection.
RECURSIVE SqrtBisect(_, _, _)
SqrtBisect(a, lo, hi) ==
    IF hi - lo <= 1 THEN lo
    ELSE LET mid == lo + (hi - lo) \div 2
         IN  IF MulFix(mid, mid) <= a THEN SqrtBisect(a, mid, hi) ELSE SqrtBisect(a, lo, mid)

Sqrt(a) == IF a >= Unit THEN Unit ELSE SqrtBisect(a, 0, Unit)

\* asin(s) for 0 <= s <= 1: the largest angle in [0, pi/2] whose sine is <= s.
HalfPi == 1570796326

RECURSIVE AsinBisect(_, _, _)
AsinBisect(s, lo, hi) ==
    IF hi - lo <= 1 THEN lo
    ELSE LET mid == lo + (hi - lo) \div 2
         IN  IF Sin(mid) <= s THEN AsinBisect(s, mid, hi) ELSE AsinBisect(s, lo, mid)

Asin(s) == IF s >= Unit THEN HalfPi ELSE AsinBisect(s, 0, HalfPi)

\* The same angle in kilometres: 2 * 6371 * asin(sqrt(a)), rounded.
HaversineKm(lat1, lon1, lat2, lon2) ==
    LET sdlat == Sin(HalfRadians(Abs(lat2 - lat1)))
        sdlon == Sin(HalfRadians(Abs(lon2 - lon1)))
        a     == MulFix(sdlat, sdlat) + MulFix(MulFix(Cos(Radians(Abs(lat1))), Cos(Radians(Abs(lat2)))), MulFix(sdlon, sdlon))
        theta == Asin(Sqrt(a))
        n     == 2 * 6371 * (theta \div 100000) + (2 * 6371 * (theta % 100000)) \div 100000
        q     == n \div 10000
        r     == n % 10000
    IN  IF r > 5000 \/ (r = 5000 /\ q % 2 = 1) THEN q + 1 ELSE q

\* sub.distance_nm::integer of 2 * 6371 * asin(sqrt(a)) / 1.852, where
\* a = sin^2(dlat/2) + cos(lat1) cos(lat2) sin^2(dlon/2).  With theta the
\* angle, 2 * 6371 * theta / 1.852 = 6371 * theta / 0.926; the cast rounds
\* to the nearest integer, ties to even.
HaversineNm(lat1, lon1, lat2, lon2) ==
    LET sdlat == Sin(HalfRadians(Abs(lat2 - lat1)))
        sdlon == Sin(HalfRadians(Abs(lon2 - lon1)))
        a     == MulFix(sdlat, sdlat) + MulFix(MulFix(Cos(Radians(Abs(lat1))), Cos(Radians(Abs(lat2)))), MulFix(sdlon, sdlon))
        theta == Asin(Sqrt(a))
        n     == 6371 * (theta \div 100000) + (6371 * (theta % 100000)) \div 100000
        q     == n \div 9260
        r     == n % 9260
    IN  IF r > 4630 \/ (r = 4630 /\ q % 2 = 1) THEN q + 1 ELSE q

DistanceTargetsAnyDistance(rt, ap) ==
    { i \in DOMAIN rt : /\ rt[i].origin_airport_id \in DOMAIN ap
                        /\ rt[i].destination_airport_id \in DOMAIN ap
                        /\ ap[rt[i].origin_airport_id].latitude # NULL
                        /\ ap[rt[i].origin_airport_id].longitude # NULL
                        /\ ap[rt[i].destination_airport_id].latitude # NULL
                        /\ ap[rt[i].destination_airport_id].longitude # NULL }

\* The UPDATE of compute_route_distances: the routes with distance_nm NULL
\* whose two airports exist with latitude and longitude NOT NULL.
DistanceTargets(rt, ap) ==
    { i \in DOMAIN rt : /\ rt[i].distance_nm = NULL
                        /\ rt[i].origin_airport_id \in DOMAIN ap
                        /\ rt[i].destination_airport_id \in DOMAIN ap
                        /\ ap[rt[i].origin_airport_id].latitude # NULL
                        /\ ap[rt[i].origin_airport_id].longitude # NULL
                        /\ ap[rt[i].destination_airport_id].latitude # NULL
                        /\ ap[rt[i].destination_airport_id].longitude # NULL }

\* Latitude and longitude of an airport, in degrees; NULL when unknown.
Coordinates == { <<NULL, NULL>>, <<0, NULL>>, <<0, 0>>, <<1, 0>> }

Known == { c \in Coordinates : c[1] # NULL /\ c[2] # NULL }

\* The distance expression on every pair of known coordinates of the model.
DistanceNm == [o \in Known, d \in Known |-> HaversineNm(o[1], o[2], d[1], d[2])]

RouteDistance(r, ap) ==
    DistanceNm[<<ap[r.origin_airport_id].latitude, ap[r.origin_airport_id].longitude>>, <<ap[r.destination_airport_id].latitude, ap[r.destination_airport_id].longitude>>]

UpdateDistancesZeroWhenUnknown(rt, ap) ==
    [i \in DOMAIN rt |-> IF i \in DistanceTargets(rt, ap) THEN [rt[i] EXCEPT !.distance_nm = RouteDistance(rt[i], ap)]
                          ELSE IF rt[i].distance_nm = NULL THEN [rt[i] EXCEPT !.distance_nm = 0] ELSE rt[i]]

\* SET distance_nm = sub.distance_nm::integer ... WHERE r.route_id = sub.route_id
UpdateDistances(rt, ap) ==
    [i \in DOMAIN rt |-> IF i \in DistanceTargets(rt, ap) THEN [rt[i] EXCEPT !.distance_nm = RouteDistance(rt[i], ap)] ELSE rt[i]]

RouteIdTargetsAnyRouteId(fl, rt) ==
    { f \in DOMAIN fl : \E i \in DOMAIN rt : RouteMatches(fl[f], rt[i]) }

\* The UPDATE of backfill_route_ids_on_flights: the flights with route_id
\* NULL that join some route on the three key columns.
RouteIdTargets(fl, rt) ==
    { f \in DOMAIN fl : fl[f].route_id = NULL /\ \E i \in DOMAIN rt : RouteMatches(fl[f], rt[i]) }

\* UPDATE ... FROM uses one joining row per target row; which one is not
\* specified when several join.
RouteIdPicks(fl, rt) ==
    { pick \in [RouteIdTargets(fl, rt) -> DOMAIN rt] : \A f \in RouteIdTargets(fl, rt) : RouteMatches(fl[f], rt[pick[f]]) }

UpdateRouteIdsAndOrigin(fl, pick) ==
    [f \in DOMAIN fl |-> IF f \in DOMAIN pick THEN [fl[f] EXCEPT !.route_id = pick[f], !.origin_airport_id = pick[f]] ELSE fl[f]]

UpdateRouteIds(fl, pick) ==
    [f \in DOMAIN fl |-> IF f \in DOMAIN pick THEN [fl[f] EXCEPT !.route_id = pick[f]] ELSE fl[f]]

\* ------------------------------------------------------------------
\* 2. AIRCRAFT + FLIGHT.AIRCRAFT_ID
\* ------------------------------------------------------------------

SeedRowsAlways(ac) == SeedFleet

SeedRowsIfIncomplete(ac) == IF Len(ac) < Len(SeedFleet) THEN SeedFleet ELSE << >>

\* INSERT ... SELECT ... FROM (VALUES ...) WHERE NOT EXISTS (SELECT 1 FROM aircraft)
SeedRows(ac) == IF Len(ac) = 0 THEN SeedFleet ELSE << >>

AssignTargetsAll(fl) == DOMAIN fl

\* The CTE choices of assign_aircraft_to_flights: the flights with
\* aircraft_id NULL.
AssignTargets(fl) == { f \in DOMAIN fl : fl[f].aircraft_id = NULL }

AnyAircraftOrNull(ac) == DOMAIN ac \cup {NULL}

AnyAircraftOrFirst(ac) == IF Len(ac) = 0 THEN {1} ELSE DOMAIN ac

\* SELECT aircraft_id FROM aircraft ORDER BY random() LIMIT 1: any row of
\* the catalog, NULL when the catalog is empty.  The stage takes one such
\* value per flight; a plan that evaluates the subquery once for the whole
\* statement gives the outcomes in which all flights get the same value.
AnyAircraft(ac) == IF Len(ac) = 0 THEN {NULL} ELSE DOMAIN ac

UpdateAircraftIds(fl, pick) ==
    [f \in DOMAIN fl |-> IF f \in DOMAIN pick THEN [fl[f] EXCEPT !.aircraft_id = pick[f]] ELSE fl[f]]

\* ------------------------------------------------------------------
\* 3. FLIGHT_CHANGES
\* ------------------------------------------------------------------

\* CTE candidate_flights
CandidateFlights(fl) == { f \in DOMAIN fl : fl[f].aircraft_id # NULL }

SampledAtMost(fl, draw, fraction) == { f \in CandidateFlights(fl) : draw[f] <= fraction }

SampledAbove(fl, draw, fraction) == { f \in CandidateFlights(fl) : draw[f] > fraction }

\* CTE sampled: WHERE random() < change_fraction, one draw per candidate.
Sampled(fl, draw, fraction) == { f \in CandidateFlights(fl) : draw[f] < fraction }

OtherAircraftAny(ac, current) == DOMAIN ac

\* The subquery of CTE new_aircraft: the catalog rows with
\* aircraft_id <> s.aircraft_id; it yields NULL when there is none.
OtherAircraft(ac, current) == { a \in DOMAIN ac : a # current }

\* The value of that subquery for one sampled flight: any of those rows
\* (ORDER BY random() LIMIT 1), NULL when there is none.
NewAircraft(ac, current) == IF OtherAircraft(ac, current) = {} THEN {NULL} ELSE OtherAircraft(ac, current)

InsertableAll(fl, ac, sampled) == sampled

\* WHERE n.new_aircraft_id IS NOT NULL
Insertable(fl, ac, sampled) == { f \in sampled : OtherAircraft(ac, fl[f].aircraft_id) # {} }

\* (ARRAY[...])[1 + floor(random() * 4)]
ReasonOf(r) == Reasons[1 + (r * 4) \div 100000]

\* n / d for n >= 0, rounded to the nearest integer, ties to even.
Rint(n, d) ==
    LET q == n \div d
        r == n % d
    IN  IF 2 * r > d \/ (2 * r = d /\ q % 2 = 1) THEN q + 1 ELSE q

ChangedAtAfterDeparture(flight_date, r) == flight_date * 86400 + 2 * 3600 + Rint(r * 90 * 60, 100000)

\* flight_date::timestamp - INTERVAL '2 hours' + random() * INTERVAL '90 minutes',
\* in ticks since day 0.  An interval times a double is rounded to the
\* nearest tick.
ChangedAt(flight_date, r) == flight_date * 86400 - 2 * 3600 + Rint(r * 90 * 60, 100000)

ChangeRowSwapped(fl, f, new, rr, rt) ==
    [flight_id |-> f, old_aircraft_id |-> new, new_aircraft_id |-> fl[f].aircraft_id, reason |-> ReasonOf(rr), changed_at |-> ChangedAt(fl[f].flight_date, rt)]

\* One row of the INSERT: flight_id, old_aircraft_id, new_aircraft_id,
\* reason, changed_at.
ChangeRow(fl, f, new, rr, rt) ==
    [flight_id |-> f, old_aircraft_id |-> fl[f].aircraft_id, new_aircraft_id |-> new, reason |-> ReasonOf(rr), changed_at |-> ChangedAt(fl[f].flight_date, rt)]

InsertChangesOverwriting(fc, fl, order, new, rr, rt) ==
    [i \in DOMAIN order |-> ChangeRow(fl, order[i], new[order[i]], rr[order[i]], rt[order[i]])]

InsertChangesTwice(fc, fl, order, new, rr, rt) ==
    fc \o [i \in 1..(2 * Len(order)) |-> ChangeRow(fl, order[((i - 1) % Len(order)) + 1], new[order[((i - 1) % Len(order)) + 1]], rr[order[((i - 1) % Len(order)) + 1]], rt[order[((i - 1) % Len(order)) + 1]])]

\* The INSERT of generate_flight_changes: one row per insertable flight, in
\* the order the SELECT produced them.
InsertChanges(fc, fl, order, new, rr, rt) ==
    fc \o [i \in DOMAIN order |-> ChangeRow(fl, order[i], new[order[i]], rr[order[i]], rt[order[i]])]

\* The second UPDATE of generate_flight_changes: the flights that join
\* some row of flight_changes.
ChangedFlights(fl, fc) == { f \in DOMAIN fl : \E i \in DOMAIN fc : fc[i].flight_id = f }

\* UPDATE ... FROM flight_changes: one joining row per flight, not
\* specified which when a flight has several.
ChangePicks(fl, fc) ==
    { pick \in [ChangedFlights(fl, fc) -> DOMAIN fc] : \A f \in ChangedFlights(fl, fc) : fc[pick[f]].flight_id = f }

MatchChanges(fl, fc, pick) ==
    [f \in DOMAIN fl |-> IF f \in DOMAIN pick THEN [fl[f] EXCEPT !.aircraft_id = fc[pick[f]].new_aircraft_id] ELSE fl[f]]

\* ------------------------------------------------------------------
\* 4. CONNECTION, INVOCATIONS
\* ------------------------------------------------------------------

\* The value of an environment variable: << >> when it is not set (getenv
\* gives None), else the one string it is set to.
EnvValues == { << >>, << "" >>, << "postgresql://a" >>, << "postgresql://b" >> }

\* Python truth of an optional string: None and "" are false.
Truthy(v) == v # << >> /\ v[1] # ""

\* Python's x or y
Or(x, y) == IF Truthy(x) THEN x ELSE y

GetDbUrlDsnFirst(e) ==
    LET url == Or(e.AIRLINE_DB_DSN, e.DATABASE_URL)
    IN  IF ~Truthy(url) THEN [raised |-> TRUE, url |-> << >>] ELSE [raised |-> FALSE, url |-> url]

\* get_db_url: the url it returns, or raised when it raises RuntimeError.
GetDbUrl(e) ==
    LET url == Or(e.DATABASE_URL, e.AIRLINE_DB_DSN)
    IN  IF ~Truthy(url) THEN [raised |-> TRUE, url |-> << >>] ELSE [raised |-> FALSE, url |-> url]

\* The script invocations (operating system processes) of the model.
Procs == {1, 2}

\* The position of an invocation: at is import (the module is being
\* loaded), idle (loaded, no call in progress), running (in a stage
\* function, todo its statements still to execute), selected (the SELECT
\* of its INSERT has produced rows, the keys in rows, not yet written), failed (an exception
\* left the script), interrupted (the process was killed between two
\* stages) or done (run() returned).  run counts the calls of run(), k is
\* the stage of run() in progress (0 for a stage function called on its
\* own), error the exception a statement raised; earlier tells how the
\* run() before this one ended and completed how many stages it committed.
Idle == [at |-> "idle", run |-> 0, k |-> 0, fn |-> "", arg |-> 0, todo |-> << >>, rows |-> << >>, error |-> "", earlier |-> "", completed |-> 0]

\* The statements of a stage function, each executed in a transaction of
\* its own (with ENGINE.begin() as con: con.execute(...)).
Transactions(fn, arg) ==
    CASE fn = "backfill_routes_from_flights" -> IF arg = 1 THEN << "insert_routes", "update_distances" >> ELSE << "insert_routes" >>
      [] fn = "compute_route_distances" -> << "update_distances" >>
      [] fn = "backfill_route_ids_on_flights" -> << "update_route_ids" >>
      [] fn = "backfill_aircraft" -> << "insert_aircraft" >>
      [] fn = "assign_aircraft_to_flights" -> << "update_aircraft_ids" >>
      [] fn = "generate_flight_changes" -> << "insert_changes", "update_flights" >>

\* The calls of run(), in order; change_fraction 0.05 is 50 thousandths.
RunStages ==
    << [fn |-> "backfill_routes_from_flights", arg |-> 0],
       [fn |-> "backfill_route_ids_on_flights", arg |-> 0],
       [fn |-> "backfill_aircraft", arg |-> 0],
       [fn |-> "assign_aircraft_to_flights", arg |-> 0],
       [fn |-> "generate_flight_changes", arg |-> 50] >>

\* The position q on entering a stage function.
Called(q, fn, arg) == [q EXCEPT !.at = "running", !.fn = fn, !.arg = arg, !.todo = Transactions(fn, arg), !.rows = << >>]

\* The stage function returned to its caller: to the script that called
\* it alone, or to run(), which calls its next stage or returns.
Returned(q) ==
    IF q.k = 0 THEN [q EXCEPT !.at = "idle"]
    ELSE IF q.k = Len(RunStages) THEN [q EXCEPT !.at = "done"]
    ELSE Called([q EXCEPT !.k = q.k + 1], RunStages[q.k + 1].fn, RunStages[q.k + 1].arg)

\* The position q after the transaction of its first statement to execute
\* has committed.
Committed(q) ==
    IF Len(q.todo) > 1 THEN [q EXCEPT !.at = "running", !.todo = Tail(q.todo)]
    ELSE Returned([q EXCEPT !.todo = << >>])

\* The position an except clause around each call of run() would give:
\* the stage function ends and its caller goes on.
RaisedAndCaught(q) == Returned([q EXCEPT !.todo = << >>])

\* An exception is not caught anywhere: it ends the script.
Raised(q) == [q EXCEPT !.at = "failed"]

\* The stages of run() that the invocation at q has committed in full.
StagesCommitted(q) == IF q.run = 0 THEN 0 ELSE IF q.at = "done" THEN Len(RunStages) ELSE q.k - 1

\* Invocation p is about to execute statement stmt.
Doing(p, stmt) == pc[p].at = "running" /\ pc[p].todo # << >> /\ Head(pc[p].todo) = stmt

\* No run() has begun.
NotBegun == [flights |-> << >>, routes |-> << >>, aircraft |-> << >>, nchanges |-> 0]

\* No file is in the data directory and no airline is loaded; no call of
\* generate_booking_payloads has been made.
NoFiles == [AIRPORTS_CSV |-> << >>, AIRLINES_CSV |-> << >>]

OtherScriptsIdle ==
    /\ airlines = << >>
    /\ files = NoFiles
    /\ passenger_ids = << >>
    /\ flight_ids = << >>
    /\ n_bookings = 0
    /\ used_pairs = {}
    /\ bookings = << >>
    /\ attempts = 0

\* The module is loaded with DATABASE_URL set, no call is in progress, the
\* store has no constraint on routes.
Loaded ==
    /\ env = [DATABASE_URL |-> << "postgresql://a" >>, AIRLINE_DB_DSN |-> << >>]
    /\ ENGINE = GetDbUrl(env).url
    /\ pc = [p \in Procs |-> Idle]
    /\ schema = {}
    /\ begun = NotBegun
    /\ OtherScriptsIdle

\* ------------------------------------------------------------------
\* Initial stores: flights as the loaders leave them (aircraft_id NULL,
\* route_id NULL), no change events.
\* ------------------------------------------------------------------
\* The triples a flight can have: any airline and airports, or one of the
\* three columns NULL.
FlightKeys == (AirlineIds \X AirportIds \X AirportIds) \cup { <<NULL, 1, 2>>, <<1, NULL, 2>>, <<1, 1, NULL>> }

FlightRow(k, day) ==
    [airline_id |-> k[1], origin_airport_id |-> k[2], destination_airport_id |-> k[3], route_id |-> NULL, aircraft_id |-> NULL, flight_date |-> day]

AirportRow(c) == [latitude |-> c[1], longitude |-> c[2]]

\* A route loaded before the backfill, with or without a curated distance.
LoadedRoutes == { << >> } \cup { << RouteRow(<<1, 1, 2>>, dist) >> : dist \in {NULL, 500} }

\* A catalog loaded before the backfill, different from the seed fleet.
LoadedFleet == << AircraftRow("Embraer", "E175", 76), AircraftRow("ATR", "72-600", 70) >>

NoReport == [op |-> "init", arg |-> 0, rowcount |-> 0, rowcount2 |-> 0, again |-> FALSE]

\* Any flights, no fleet yet.
InitRoutes ==
    /\ routes \in LoadedRoutes
    /\ \E k \in [FlightIds -> FlightKeys] : flights = [f \in FlightIds |-> FlightRow(k[f], f)]
    /\ \E c \in [AirportIds -> Coordinates] : airports = [p \in AirportIds |-> AirportRow(c[p])]
    /\ aircraft = << >>
    /\ flight_changes = << >>
    /\ last = NoReport
    /\ prev = Snapshot
    /\ Loaded

\* Flights of one route; the catalog empty, or loaded with one or two rows;
\* each flight not yet assigned, or assigned by an earlier run.
InitFleet ==
    /\ routes = << >>
    /\ aircraft \in { << >>, SubSeq(LoadedFleet, 1, 1), LoadedFleet }
    /\ \E ac \in [FlightIds -> DOMAIN aircraft \cup {NULL}] :
         flights = [f \in FlightIds |-> [FlightRow(<<1, 1, 2>>, f) EXCEPT !.aircraft_id = ac[f]]]
    /\ airports = [p \in AirportIds |-> AirportRow(<<NULL, NULL>>)]
    /\ flight_changes = << >>
    /\ last = NoReport
    /\ prev = Snapshot
    /\ Loaded

\* The first flight on the route 1 -> 2, the others any; that route loaded
\* or not; airports with coordinates; a loaded catalog.
Init ==
    /\ routes \in { << >>, << RouteRow(<<1, 1, 2>>, NULL) >> }
    /\ \E k \in [FlightIds -> FlightKeys] : k[1] = <<1, 1, 2>> /\ flights = [f \in FlightIds |-> FlightRow(k[f], f)]
    /\ airports = [p \in AirportIds |-> AirportRow(IF p = 1 THEN <<0, 0>> ELSE <<1, 0>>)]
    /\ aircraft = LoadedFleet
    /\ flight_changes = << >>
    /\ last = NoReport
    /\ prev = Snapshot
    /\ Loaded

\* Two flights of one carrier, on one route or on a route and its return;
\* no route yet, airports with coordinates, a loaded catalog.
InitStages ==
    /\ routes = << >>
    /\ \E k \in [FlightIds -> { <<1, 1, 2>>, <<1, 2, 1>> }] : k[1] = <<1, 1, 2>> /\ flights = [f \in FlightIds |-> FlightRow(k[f], f)]
    /\ airports = [p \in AirportIds |-> AirportRow(IF p = 1 THEN <<0, 0>> ELSE <<1, 0>>)]
    /\ aircraft = LoadedFleet
    /\ flight_changes = << >>
    /\ last = NoReport
    /\ prev = Snapshot
    /\ Loaded

\* The store before the backfill: flights of one carrier, the first on
\* the route 1 -> 2; that route loaded or not; a catalog empty or loaded.
InitRun ==
    /\ routes \in { << >>, << RouteRow(<<1, 1, 2>>, NULL) >> }
    /\ \E k \in [FlightIds -> { <<1, 1, 2>>, <<1, 2, 1>>, <<1, 1, NULL>> }] : k[1] = <<1, 1, 2>> /\ flights = [f \in FlightIds |-> FlightRow(k[f], f)]
    /\ airports = [p \in AirportIds |-> AirportRow(IF p = 1 THEN <<0, 0>> ELSE <<1, 0>>)]
    /\ aircraft \in { << >>, LoadedFleet }
    /\ flight_changes = << >>
    /\ last = NoReport
    /\ prev = Snapshot
    /\ Loaded

\* Flights and routes as in InitRoutes, the first flight on the route
\* 1 -> 2; every airport lacks its longitude, or both coordinates.
InitDistances ==
    /\ routes \in LoadedRoutes
    /\ \E k \in [FlightIds -> FlightKeys] : k[1] = <<1, 1, 2>> /\ flights = [f \in FlightIds |-> FlightRow(k[f], f)]
    /\ \E c \in [AirportIds -> Coordinates \ Known] : airports = [p \in AirportIds |-> AirportRow(c[p])]
    /\ aircraft = << >>
    /\ flight_changes = << >>
    /\ last = NoReport
    /\ prev = Snapshot
    /\ Loaded

\* Flights with an aircraft of a catalog of three, the second possibly
\* without one; no change event yet.
InitConcurrentChanges ==
    /\ routes = << >>
    /\ aircraft = SubSeq(SeedFleet, 1, 3)
    /\ \E ac \in [FlightIds -> DOMAIN aircraft \cup {NULL}] :
         /\ ac[1] # NULL
         /\ flights = [f \in FlightIds |-> [FlightRow(<<1, 1, 2>>, f) EXCEPT !.aircraft_id = ac[f]]]
    /\ airports = [p \in AirportIds |-> AirportRow(<<NULL, NULL>>)]
    /\ flight_changes = << >>
    /\ last = NoReport
    /\ prev = Snapshot
    /\ Loaded

\* Any flights, the route 1 -> 2 loaded or not, in a store that enforces
\* the uniqueness of the route key or does not.
InitConcurrentRoutes ==
    /\ routes \in { << >>, << RouteRow(<<1, 1, 2>>, NULL) >> }
    /\ \E k \in [FlightIds -> FlightKeys] : flights = [f \in FlightIds |-> FlightRow(k[f], f)]
    /\ airports = [p \in AirportIds |-> AirportRow(<<NULL, NULL>>)]
    /\ aircraft = << >>
    /\ flight_changes = << >>
    /\ last = NoReport
    /\ prev = Snapshot
    /\ env = [DATABASE_URL |-> << "postgresql://a" >>, AIRLINE_DB_DSN |-> << >>]
    /\ ENGINE = GetDbUrl(env).url
    /\ pc = [p \in Procs |-> Idle]
    /\ schema \in { {}, {"routes_natural_key"} }
    /\ begun = NotBegun
    /\ OtherScriptsIdle

\* The script is about to be loaded in any environment; two flights of
\* one route, no route yet, a loaded catalog.
InitImport ==
    /\ routes = << >>
    /\ flights = [f \in FlightIds |-> FlightRow(<<1, 1, 2>>, f)]
    /\ airports = [p \in AirportIds |-> AirportRow(<<NULL, NULL>>)]
    /\ aircraft = LoadedFleet
    /\ flight_changes = << >>
    /\ last = NoReport
    /\ prev = Snapshot
    /\ env \in [DATABASE_URL : EnvValues, AIRLINE_DB_DSN : EnvValues]
    /\ ENGINE = << >>
    /\ pc = [p \in Procs |-> IF p = 1 THEN [Idle EXCEPT !.at = "import"] ELSE Idle]
    /\ schema = {}
    /\ begun = NotBegun
    /\ OtherScriptsIdle

\* ------------------------------------------------------------------
\* Stages
\* ------------------------------------------------------------------
BackfillRoutesFromFlights(compute_distance) ==
    \E order \in Orders(MissingRouteKeys(flights, routes)) :
        LET inserted == InsertRoutes(routes, order)
        IN  /\ routes' = IF compute_distance THEN UpdateDistances(inserted, airports) ELSE inserted
            /\ last' = Report("backfill_routes_from_flights", IF compute_distance THEN 1 ELSE 0, Len(order), IF compute_distance THEN Cardinality(DistanceTargets(inserted, airports)) ELSE 0)
            /\ prev' = Snapshot
            /\ UNCHANGED <<flights, airports, aircraft, flight_changes, ctl>>

ComputeRouteDistances ==
    /\ routes' = UpdateDistances(routes, airports)
    /\ last' = Report("compute_route_distances", 0, Cardinality(DistanceTargets(routes, airports)), 0)
    /\ prev' = Snapshot
    /\ UNCHANGED <<flights, airports, aircraft, flight_changes, ctl>>

BackfillRouteIdsOnFlights ==
    \E pick \in RouteIdPicks(flights, routes) :
        /\ flights' = UpdateRouteIds(flights, pick)
        /\ last' = Report("backfill_route_ids_on_flights", 0, Cardinality(DOMAIN pick), 0)
        /\ prev' = Snapshot
        /\ UNCHANGED <<routes, airports, aircraft, flight_changes, ctl>>

BackfillAircraft ==
    /\ aircraft' = aircraft \o SeedRows(aircraft)
    /\ last' = Report("backfill_aircraft", 0, Len(SeedRows(aircraft)), 0)
    /\ prev' = Snapshot
    /\ UNCHANGED <<flights, routes, airports, flight_changes, ctl>>

AssignAircraftToFlights ==
    \E pick \in [AssignTargets(flights) -> AnyAircraft(aircraft)] :
        /\ flights' = UpdateAircraftIds(flights, pick)
        /\ last' = Report("assign_aircraft_to_flights", 0, Cardinality(DOMAIN pick), 0)
        /\ prev' = Snapshot
        /\ UNCHANGED <<routes, airports, aircraft, flight_changes, ctl>>

\* cap bounds the size of flight_changes in the model.
GenerateFlightChanges(change_fraction, cap) ==
    \E sampled \in { Sampled(flights, draw, change_fraction) : draw \in [CandidateFlights(flights) -> Rand] } :
        LET ins == Insertable(flights, aircraft, sampled)
        IN  /\ Len(flight_changes) + Cardinality(ins) <= cap
            /\ \E order \in Orders(ins), new \in [ins -> DOMAIN aircraft \cup {NULL}], rd \in [ins -> RowDraws] :
                 /\ \A f \in ins : new[f] \in NewAircraft(aircraft, flights[f].aircraft_id)
                 /\ flight_changes' = InsertChanges(flight_changes, flights, order, new, [f \in ins |-> rd[f][1]], [f \in ins |-> rd[f][2]])
                 /\ \E pick \in ChangePicks(flights, flight_changes') :
                      /\ flights' = MatchChanges(flights, flight_changes', pick)
                      /\ last' = Report("generate_flight_changes", change_fraction, Len(order), Cardinality(DOMAIN pick))
            /\ prev' = Snapshot
            /\ UNCHANGED <<routes, airports, aircraft, ctl>>

\* ------------------------------------------------------------------
\* Stages, one transaction at a time
\* ------------------------------------------------------------------
\* Invocation p moves on after a commit; prev is the store as the stage
\* function that run() calls next finds it.
Advance(p) ==
    /\ pc' = [pc EXCEPT ![p] = Committed(pc[p])]
    /\ prev' = IF Committed(pc[p]).at = "running" /\ Committed(pc[p]).k # pc[p].k THEN Snapshot' ELSE prev
    /\ UNCHANGED <<env, ENGINE, schema, begun, loader, revenue>>

\* The report of the statement that p has executed: the first statement
\* of a stage function opens the report, a later one adds its row count.
StatementReport(p, n) ==
    IF Len(pc[p].todo) = Len(Transactions(pc[p].fn, pc[p].arg))
    THEN Report(pc[p].fn, pc[p].arg, n, 0)
    ELSE [last EXCEPT !.rowcount2 = n]

\* with ENGINE.begin(): con.execute(insert_sql) of backfill_routes_from_flights
BackfillRoutesInsert(p) ==
    /\ Doing(p, "insert_routes")
    /\ \E order \in Orders(MissingRouteKeys(flights, routes)) :
         /\ routes' = InsertRoutes(routes, order)
         /\ last' = StatementReport(p, Len(order))
    /\ UNCHANGED <<flights, airports, aircraft, flight_changes>>
    /\ Advance(p)

\* with ENGINE.begin(): con.execute(update_sql) of compute_route_distances
ComputeDistancesUpdate(p) ==
    /\ Doing(p, "update_distances")
    /\ routes' = UpdateDistances(routes, airports)
    /\ last' = StatementReport(p, Cardinality(DistanceTargets(routes, airports)))
    /\ UNCHANGED <<flights, airports, aircraft, flight_changes>>
    /\ Advance(p)

\* with ENGINE.begin(): con.execute(update_sql) of backfill_route_ids_on_flights
BackfillRouteIdsUpdate(p) ==
    /\ Doing(p, "update_route_ids")
    /\ \E pick \in RouteIdPicks(flights, routes) :
         /\ flights' = UpdateRouteIds(flights, pick)
         /\ last' = StatementReport(p, Cardinality(DOMAIN pick))
    /\ UNCHANGED <<routes, airports, aircraft, flight_changes>>
    /\ Advance(p)

\* with ENGINE.begin(): con.execute(insert_sql) of backfill_aircraft
BackfillAircraftInsert(p) ==
    /\ Doing(p, "insert_aircraft")
    /\ aircraft' = aircraft \o SeedRows(aircraft)
    /\ last' = StatementReport(p, Len(SeedRows(aircraft)))
    /\ UNCHANGED <<flights, routes, airports, flight_changes>>
    /\ Advance(p)

\* with ENGINE.begin(): con.execute(update_sql) of assign_aircraft_to_flights
AssignAircraftUpdate(p) ==
    /\ Doing(p, "update_aircraft_ids")
    /\ \E pick \in [AssignTargets(flights) -> AnyAircraft(aircraft)] :
         /\ flights' = UpdateAircraftIds(flights, pick)
         /\ last' = StatementReport(p, Cardinality(DOMAIN pick))
    /\ UNCHANGED <<routes, airports, aircraft, flight_changes>>
    /\ Advance(p)

\* with ENGINE.begin(): con.execute(insert_sql) of generate_flight_changes;
\* cap bounds the size of flight_changes in the model.
GenerateChangesInsert(p, cap) ==
    /\ Doing(p, "insert_changes")
    /\ \E sampled \in { Sampled(flights, draw, pc[p].arg) : draw \in [CandidateFlights(flights) -> Rand] } :
         LET ins == Insertable(flights, aircraft, sampled)
         IN  /\ Len(flight_changes) + Cardinality(ins) <= cap
             /\ \E order \in Orders(ins), new \in [ins -> DOMAIN aircraft \cup {NULL}], rd \in [ins -> RowDraws] :
                  /\ \A f \in ins : new[f] \in NewAircraft(aircraft, flights[f].aircraft_id)
                  /\ flight_changes' = InsertChanges(flight_changes, flights, order, new, [f \in ins |-> rd[f][1]], [f \in ins |-> rd[f][2]])
                  /\ last' = StatementReport(p, Len(order))
    /\ UNCHANGED <<flights, routes, airports, aircraft>>
    /\ Advance(p)

\* with ENGINE.begin(): con.execute(update_sql) of generate_flight_changes
GenerateChangesUpdate(p) ==
    /\ Doing(p, "update_flights")
    /\ \E pick \in ChangePicks(flights, flight_changes) :
         /\ flights' = MatchChanges(flights, flight_changes, pick)
         /\ last' = StatementReport(p, Cardinality(DOMAIN pick))
    /\ UNCHANGED <<routes, airports, aircraft, flight_changes>>
    /\ Advance(p)

UniqueViolationNever(rt, keys) == FALSE

\* The store enforces uniqueness of (airline_id, origin_airport_id,
\* destination_airport_id) on routes: inserting keys raises when a key is
\* in the table already or occurs twice among them.
UniqueViolation(rt, keys) ==
    \/ \E i \in DOMAIN keys : \E j \in DOMAIN rt : Key(rt[j]) = keys[i]
    \/ \E i, j \in DOMAIN keys : i # j /\ keys[i] = keys[j]

\* The SELECT of the INSERT of backfill_routes_from_flights is evaluated
\* on the rows committed when the statement starts.
SelectRoutes(p) ==
    /\ Doing(p, "insert_routes")
    /\ \E order \in Orders(MissingRouteKeys(flights, routes)) :
         pc' = [pc EXCEPT ![p] = [pc[p] EXCEPT !.at = "selected", !.rows = order]]
    /\ UNCHANGED <<store, last, prev, env, ENGINE, schema, begun, loader, revenue>>

\* The selected rows are written and the transaction commits; where the
\* store enforces the uniqueness of the key, a key that another
\* transaction has committed since makes the statement raise instead.
InsertSelectedRoutes(p) ==
    /\ pc[p].at = "selected"
    /\ IF "routes_natural_key" \in schema /\ UniqueViolation(routes, pc[p].rows)
       THEN /\ pc' = [pc EXCEPT ![p] = Raised([pc[p] EXCEPT !.error = "IntegrityError"])]
            /\ UNCHANGED <<store, last, prev, env, ENGINE, schema, begun, loader, revenue>>
       ELSE /\ routes' = InsertRoutes(routes, pc[p].rows)
            /\ last' = StatementReport(p, Len(pc[p].rows))
            /\ UNCHANGED <<flights, airports, aircraft, flight_changes>>
            /\ Advance(p)

\* The statement p is executing raises (a store error): its transaction
\* is rolled back, the exception leaves the stage function and run().
StatementFails(p) ==
    /\ pc[p].at \in {"running", "selected"}
    /\ pc' = [pc EXCEPT ![p] = Raised([pc[p] EXCEPT !.error = "DBAPIError"])]
    /\ UNCHANGED <<store, last, prev, env, ENGINE, schema, begun, loader, revenue>>

\* A script calls one stage function.
Invoke(p, fn, arg) ==
    /\ pc[p].at \in {"idle", "failed"}
    /\ pc[p].run = 0
    /\ pc' = [pc EXCEPT ![p] = Called([pc[p] EXCEPT !.k = 0, !.error = ""], fn, arg)]
    /\ prev' = Snapshot
    /\ UNCHANGED <<store, last, env, ENGINE, schema, begun, loader, revenue>>

\* The module is loaded: ENGINE = create_engine(get_db_url(), ...).  The
\* exception of get_db_url ends the script before ENGINE exists.
Import(p) ==
    /\ pc[p].at = "import"
    /\ IF GetDbUrl(env).raised
       THEN /\ pc' = [pc EXCEPT ![p] = Raised([pc[p] EXCEPT !.error = "RuntimeError"])]
            /\ ENGINE' = ENGINE
       ELSE /\ pc' = [pc EXCEPT ![p].at = "idle"]
            /\ ENGINE' = GetDbUrl(env).url
    /\ UNCHANGED <<store, last, prev, env, schema, begun, loader, revenue>>

\* The script is started: run() calls its first stage.  A script that
\* ended, in whatever way, can be started again.
Run(p) ==
    /\ pc[p].at \in {"idle", "failed", "interrupted", "done"}
    /\ ENGINE # << >>
    /\ pc[p].run < MaxRuns
    /\ pc' = [pc EXCEPT ![p] = Called([pc[p] EXCEPT !.run = @ + 1, !.k = 1, !.error = "", !.earlier = IF pc[p].run = 0 THEN "" ELSE pc[p].at, !.completed = StagesCommitted(pc[p])], RunStages[1].fn, RunStages[1].arg)]
    /\ prev' = Snapshot
    /\ begun' = IF pc[p].run = 0 THEN Snapshot ELSE begun
    /\ UNCHANGED <<store, last, env, ENGINE, schema, loader, revenue>>

\* The process is killed between two stages of run().
Interrupt(p) ==
    /\ pc[p].at = "running"
    /\ pc[p].k >= 2
    /\ pc[p].todo = Transactions(pc[p].fn, pc[p].arg)
    /\ pc' = [pc EXCEPT ![p].at = "interrupted"]
    /\ UNCHANGED <<store, last, prev, env, ENGINE, schema, begun, loader, revenue>>

\* The coordinates of an airport that lacked them are added to the store
\* (by hand: no script of the repository updates an airport).
CoordinatesAdded ==
    /\ \E a \in DOMAIN airports, c \in Known :
         /\ airports[a].latitude = NULL \/ airports[a].longitude = NULL
         /\ airports' = [airports EXCEPT ![a] = AirportRow(c)]
    /\ last' = Report("coordinates_added", 0, 1, 0)
    /\ prev' = Snapshot
    /\ UNCHANGED <<flights, routes, aircraft, flight_changes, ctl>>

StageRoutes ==
    \/ \E compute_distance \in BOOLEAN : BackfillRoutesFromFlights(compute_distance)
    \/ ComputeRouteDistances
    \/ BackfillRouteIdsOnFlights

StageFleet(cap) ==
    \/ BackfillAircraft
    \/ AssignAircraftToFlights
    \/ \E change_fraction \in Fractions : GenerateFlightChanges(change_fraction, cap)

Next == StageRoutes \/ StageFleet(MaxPipelineChanges)

\* Every stage, in any order, any number of times, each as a whole.
Spec == Init /\ [][Next]_vars

\* The route stages on any flights.
SpecRoutes == InitRoutes /\ [][StageRoutes]_vars

\* The fleet stages on any catalog.
SpecFleet == InitFleet /\ [][StageFleet(MaxChanges)]_vars

\* Seeding and assignment alone.
SpecSeed == InitFleet /\ [][BackfillAircraft \/ AssignAircraftToFlights]_vars

\* Routes are derived and distances computed while airports get their
\* coordinates.
SpecDistances == InitDistances /\ [][(\E compute_distance \in BOOLEAN : BackfillRoutesFromFlights(compute_distance)) \/ ComputeRouteDistances \/ CoordinatesAdded]_vars

\* A script that has called nothing yet calls one stage function.
Start(p, fn, arg) == pc[p].fn = "" /\ Invoke(p, fn, arg)

\* Two scripts call generate_flight_changes on the same store, once each;
\* their transactions commit in any order.
SpecConcurrentChanges ==
    InitConcurrentChanges /\ [][\E p \in Procs : \/ \E change_fraction \in Fractions : Start(p, "generate_flight_changes", change_fraction)
                                                 \/ GenerateChangesInsert(p, MaxChanges)
                                                 \/ GenerateChangesUpdate(p)]_vars

\* Two scripts call backfill_routes_from_flights on the same store, once
\* each; the SELECT of one can run before the other's INSERT commits.
SpecConcurrentRoutes ==
    InitConcurrentRoutes /\ [][\E p \in Procs : \/ Start(p, "backfill_routes_from_flights", 0)
                                                \/ SelectRoutes(p)
                                                \/ InsertSelectedRoutes(p)]_vars

\* A script calls any stage function.
StageCalls(p) ==
    \/ \E compute_distance \in BOOLEAN : Invoke(p, "backfill_routes_from_flights", IF compute_distance THEN 1 ELSE 0)
    \/ Invoke(p, "compute_route_distances", 0)
    \/ Invoke(p, "backfill_route_ids_on_flights", 0)
    \/ Invoke(p, "backfill_aircraft", 0)
    \/ Invoke(p, "assign_aircraft_to_flights", 0)
    \/ \E change_fraction \in Fractions : Invoke(p, "generate_flight_changes", change_fraction)

\* Invocation p executes its next statement and commits.
Statements(p, cap) ==
    \/ BackfillRoutesInsert(p)
    \/ ComputeDistancesUpdate(p)
    \/ BackfillRouteIdsUpdate(p)
    \/ BackfillAircraftInsert(p)
    \/ AssignAircraftUpdate(p)
    \/ GenerateChangesInsert(p, cap)
    \/ GenerateChangesUpdate(p)

\* The statements of the stages that run() calls.
RunStatements(p, cap) ==
    \/ BackfillRoutesInsert(p)
    \/ BackfillRouteIdsUpdate(p)
    \/ BackfillAircraftInsert(p)
    \/ AssignAircraftUpdate(p)
    \/ GenerateChangesInsert(p, cap)
    \/ GenerateChangesUpdate(p)

\* The script run(), started up to MaxRuns times: a statement can fail,
\* the process can be killed between stages.
SpecRun == InitRun /\ [][Run(1) \/ RunStatements(1, MaxPipelineChanges) \/ StatementFails(1) \/ Interrupt(1)]_vars

\* One script calls stage functions one after the other; each executes
\* transaction by transaction, and any statement can fail.
SpecStages == InitStages /\ [][StageCalls(1) \/ Statements(1, MaxPipelineChanges) \/ StatementFails(1)]_vars

\* The script is loaded, then run() runs, without failure of the store.
SpecImport == InitImport /\ [][Import(1) \/ Run(1) \/ RunStatements(1, MaxPipelineChanges)]_vars

\* ------------------------------------------------------------------
\* 5. REFERENCE LOADER (load_openflights.py)
\* ------------------------------------------------------------------
\* A string is the sequence of its characters.  None is what is no string:
\* Python's None, SQL NULL, and the NaN that pandas reads from an empty
\* field.
None == << "None" >>

BackslashN == << "\\", "N" >>

Upper(s) == [i \in DOMAIN s |-> CASE s[i] = "a" -> "A" [] s[i] = "b" -> "B" [] s[i] = "k" -> "K" [] OTHER -> s[i]]

RECURSIVE Strip(_)
Strip(s) ==
    IF s = << >> THEN s
    ELSE IF Head(s) = " " THEN Strip(Tail(s))
    ELSE IF s[Len(s)] = " " THEN Strip(SubSeq(s, 1, Len(s) - 1))
    ELSE s

\* s[:n]
Truncate(s, n) == SubSeq(s, 1, IF Len(s) < n THEN Len(s) ELSE n)

\* _clean_str: a stripped string, or None for NaN and placeholders.
CleanStr(value) ==
    IF value = None THEN None
    ELSE IF Strip(value) = << >> \/ Strip(value) = BackslashN THEN None
    ELSE Strip(value)

\* float(row[6]) if row[6] not in (None, "", r"\N") else None, in whole
\* degrees; None also when float raises.
ToFloat(value) ==
    IF value \in {<< >>, BackslashN} THEN NULL
    ELSE IF value = << "0" >> THEN 0
    ELSE IF value = << "1" >> THEN 1
    ELSE NULL

\* The code of a row: cleaned, cut to n characters, upper case.
Code(value, n) == IF CleanStr(value) = None THEN None ELSE Upper(Truncate(CleanStr(value), n))

\* One line of openflights_airports.csv becomes at most one row to insert:
\* none when it has neither IATA nor ICAO code.
AirportRowsOfLine(line) ==
    IF Code(line.iata, 3) = None /\ Code(line.icao, 4) = None THEN << >>
    ELSE << [iata_code |-> Code(line.iata, 3), icao_code |-> Code(line.icao, 4), name |-> CleanStr(line.name),
             latitude |-> ToFloat(line.lat), longitude |-> ToFloat(line.lon)] >>

RECURSIVE AirportRows(_)
AirportRows(lines) == IF lines = << >> THEN << >> ELSE AirportRowsOfLine(Head(lines)) \o AirportRows(Tail(lines))

\* One line of openflights_airlines.csv: none when it has no name.
AirlineRowsOfLine(line) ==
    IF CleanStr(line.name) = None THEN << >>
    ELSE << [name |-> CleanStr(line.name), iata_code |-> Code(line.iata, 3), icao_code |-> Code(line.icao, 3),
             country |-> Code(line.country, 3)] >>

RECURSIVE AirlineRows(_)
AirlineRows(lines) == IF lines = << >> THEN << >> ELSE AirlineRowsOfLine(Head(lines)) \o AirlineRows(Tail(lines))

\* airline.airports has iata_code UNIQUE and icao_code UNIQUE; SQL NULL
\* conflicts with nothing.
HasIata(tbl, code) == code # None /\ \E i \in DOMAIN tbl : tbl[i].iata_code = code

HasIcao(tbl, code) == code # None /\ \E i \in DOMAIN tbl : tbl[i].icao_code = code

\* INSERT INTO airline.airports ... ON CONFLICT (iata_code) DO NOTHING,
\* executed for each row in one transaction: a row whose iata_code is in
\* the table is skipped; a row whose icao_code is in the table, and whose
\* iata_code is not, violates the other unique constraint: the statement
\* raises and the transaction is rolled back.
RECURSIVE InsertAirports(_, _)
InsertAirports(tbl, rows) ==
    IF rows = << >> THEN [raised |-> FALSE, table |-> tbl]
    ELSE IF HasIata(tbl, Head(rows).iata_code) THEN InsertAirports(tbl, Tail(rows))
    ELSE IF HasIcao(tbl, Head(rows).icao_code) THEN [raised |-> TRUE, table |-> << >>]
    ELSE InsertAirports(Append(tbl, Head(rows)), Tail(rows))

\* INSERT INTO airline.airlines ... ON CONFLICT DO NOTHING: airline.airlines
\* has no unique constraint but its serial key, so no row ever conflicts.
InsertAirlines(tbl, rows) == tbl \o rows

\* The lines a file of the model can hold.
MaxLines == 2

AirportLines ==
    { [name |-> << "A" >>, iata |-> i, icao |-> c, lat |-> << "0" >>, lon |-> BackslashN] :
        i \in { None, BackslashN, << "A", "A", "A" >>, << "a", "a", "a", "b" >> },
        c \in { BackslashN, << "K", "A", "A", "A" >>, << "k", "b", "b", "b", " " >> } }

AirlineLines ==
    { [name |-> n, iata |-> i, icao |-> << "A", "A", "B" >>, country |-> << "A", "b", "b", "a" >>] :
        n \in { BackslashN, << "A", " ", "A" >> },
        i \in { None, << "a", "a" >> } }

Files(lines) == UNION { [1..n -> lines] : n \in 1..MaxLines }

\* The store before the reference data is loaded: no airport, no airline;
\* any two files.
InitLoad ==
    /\ flights = << >>
    /\ routes = << >>
    /\ airports = << >>
    /\ aircraft = << >>
    /\ flight_changes = << >>
    /\ last = NoReport
    /\ prev = [airports |-> << >>, airlines |-> << >>]
    /\ env = [DATABASE_URL |-> << "postgresql://a" >>, AIRLINE_DB_DSN |-> << >>]
    /\ ENGINE = GetDbUrl(env).url
    /\ pc = [p \in Procs |-> Idle]
    /\ schema = {"airports_iata_code_key", "airports_icao_code_key"}
    /\ begun = NotBegun
    /\ airlines = << >>
    /\ \E a \in Files(AirportLines), l \in Files(AirlineLines) : files = [AIRPORTS_CSV |-> a, AIRLINES_CSV |-> l]
    /\ passenger_ids = << >>
    /\ flight_ids = << >>
    /\ n_bookings = 0
    /\ used_pairs = {}
    /\ bookings = << >>
    /\ attempts = 0

\* The script is started: run() calls load_airports.  prev is the two
\* tables as this run found them.
LoaderRun(p) ==
    /\ pc[p].at \in {"idle", "done"}
    /\ pc[p].run < MaxRuns
    /\ pc' = [pc EXCEPT ![p] = [pc[p] EXCEPT !.at = "running", !.run = @ + 1, !.k = 1, !.fn = "load_airports", !.error = ""]]
    /\ prev' = [airports |-> airports, airlines |-> airlines]
    /\ UNCHANGED <<store, last, env, ENGINE, schema, begun, loader, revenue>>

\* load_airports: nothing is executed without rows; else one transaction.
LoadAirports(p) ==
    /\ pc[p].at = "running"
    /\ pc[p].fn = "load_airports"
    /\ LET rows == AirportRows(files.AIRPORTS_CSV)
           done == InsertAirports(airports, rows)
       IN  IF rows # << >> /\ done.raised
           THEN /\ pc' = [pc EXCEPT ![p] = Raised([pc[p] EXCEPT !.error = "IntegrityError"])]
                /\ UNCHANGED <<airports, last>>
           ELSE /\ airports' = done.table
                /\ last' = Report("load_airports", 0, Len(rows), 0)
                /\ pc' = [pc EXCEPT ![p] = [pc[p] EXCEPT !.k = 2, !.fn = "load_airlines"]]
    /\ UNCHANGED <<flights, routes, aircraft, flight_changes, prev, env, ENGINE, schema, begun, loader, revenue>>

\* load_airlines, then run() returns.
LoadAirlines(p) ==
    /\ pc[p].at = "running"
    /\ pc[p].fn = "load_airlines"
    /\ airlines' = InsertAirlines(airlines, AirlineRows(files.AIRLINES_CSV))
    /\ last' = Report("load_airlines", 0, Len(AirlineRows(files.AIRLINES_CSV)), 0)
    /\ pc' = [pc EXCEPT ![p] = [pc[p] EXCEPT !.at = "done"]]
    /\ UNCHANGED <<store, prev, env, ENGINE, schema, begun, files, revenue>>

\* load_openflights.py is run up to MaxRuns times on the same files.
SpecLoad == InitLoad /\ [][LoaderRun(1) \/ LoadAirports(1) \/ LoadAirlines(1)]_vars

\* ------------------------------------------------------------------
\* 6. SYNTHETIC BOOKINGS (synth_revenue.py)
\* ------------------------------------------------------------------
FARE_CLASSES == << "Basic", "Standard", "Flexible", "Business", "First" >>

BOOKING_CHANNELS == << "Web", "Mobile", "Call Center", "Travel Agent" >>

\* The bookings a call is asked for in the model.
MaxBookings == 2

\* max(money(80), min(base_price, money(900))), in whole dollars.
ClampPrice(x) == IF x > 900 THEN 900 ELSE IF x < 80 THEN 80 ELSE x

\* The random values of one payload: the month of booking_date between
\* -9M and +3M, the places of the fare class and the channel drawn from
\* their lists, the lognormal price; least and greatest.
PayloadDraws == { [months |-> 0 - 9, fare |-> 1, channel |-> 1, price |-> 10], [months |-> 3, fare |-> Len(FARE_CLASSES), channel |-> Len(BOOKING_CHANNELS), price |-> 5000] }

\* The dict appended to bookings.
Payload(passenger_id, flight_id, d) ==
    [passenger_id |-> passenger_id, flight_id |-> flight_id, booking_date |-> d.months, fare_class |-> FARE_CLASSES[d.fare],
     base_price_usd |-> ClampPrice(d.price), booking_channel |-> BOOKING_CHANNELS[d.channel]]

KeyUsedNever(key, used) == FALSE

\* if key in used_pairs
KeyUsed(key, used) == key \in used

\* max_attempts = n_bookings * 10
MaxAttempts(n) == n * 10

\* while len(bookings) < n_bookings and attempts < max_attempts
Looping == Len(bookings) < n_bookings /\ attempts < MaxAttempts(n_bookings)

\* Lists of ids as fetch_passengers_and_flights returns them: not empty,
\* in ascending order; the pairs that airline.bookings holds are pairs of
\* them.
IdLists == { [i \in 1..n |-> i] : n \in 1..NumFlights }

InitBookings ==
    /\ flights = << >>
    /\ routes = << >>
    /\ airports = << >>
    /\ aircraft = << >>
    /\ flight_changes = << >>
    /\ last = NoReport
    /\ prev = [used_pairs |-> {}]
    /\ env = [DATABASE_URL |-> << "postgresql://a" >>, AIRLINE_DB_DSN |-> << >>]
    /\ ENGINE = GetDbUrl(env).url
    /\ pc = [p \in Procs |-> Idle]
    /\ schema = {"bookings_passenger_id_flight_id_key"}
    /\ begun = NotBegun
    /\ airlines = << >>
    /\ files = NoFiles
    /\ passenger_ids \in IdLists
    /\ flight_ids \in IdLists
    /\ n_bookings \in 0..MaxBookings
    /\ used_pairs \in SUBSET (Range(passenger_ids) \X Range(flight_ids))
    /\ bookings = << >>
    /\ attempts = 0

\* generate_booking_payloads is called: bookings = [], attempts = 0.  prev
\* is used_pairs as the call finds it.
GenerateBookingPayloads(p) ==
    /\ pc[p].at = "idle"
    /\ pc[p].fn = ""
    /\ pc' = [pc EXCEPT ![p] = [pc[p] EXCEPT !.at = "running", !.fn = "generate_booking_payloads", !.arg = n_bookings]]
    /\ prev' = [used_pairs |-> used_pairs]
    /\ bookings' = << >>
    /\ attempts' = 0
    /\ UNCHANGED <<store, last, env, ENGINE, schema, begun, loader, passenger_ids, flight_ids, n_bookings, used_pairs>>

\* One turn of the while loop.
Attempt(p) ==
    /\ pc[p].at = "running"
    /\ pc[p].fn = "generate_booking_payloads"
    /\ Looping
    /\ attempts' = attempts + 1
    /\ \E passenger_id \in Range(passenger_ids), flight_id \in Range(flight_ids) :
         IF KeyUsed(<<passenger_id, flight_id>>, used_pairs)
         THEN UNCHANGED <<used_pairs, bookings>>
         ELSE /\ used_pairs' = used_pairs \cup { <<passenger_id, flight_id>> }
              /\ \E d \in PayloadDraws : bookings' = Append(bookings, Payload(passenger_id, flight_id, d))
    /\ UNCHANGED <<store, last, prev, pc, env, ENGINE, schema, begun, loader, passenger_ids, flight_ids, n_bookings>>

\* The loop has ended: return bookings.
ReturnBookings(p) ==
    /\ pc[p].at = "running"
    /\ pc[p].fn = "generate_booking_payloads"
    /\ ~Looping
    /\ pc' = [pc EXCEPT ![p] = [pc[p] EXCEPT !.at = "done"]]
    /\ last' = Report("generate_booking_payloads", n_bookings, Len(bookings), attempts)
    /\ UNCHANGED <<store, prev, env, ENGINE, schema, begun, loader, revenue>>

\* One call of generate_booking_payloads on any arguments.
SpecBookings == InitBookings /\ [][GenerateBookingPayloads(1) \/ Attempt(1) \/ ReturnBookings(1)]_vars

\* ------------------------------------------------------------------
\* Properties
\* ------------------------------------------------------------------
RoutesOfKey(rt, k) == { i \in DOMAIN rt : Key(rt[i]) = k }

KeyedFlights(fl) == { f \in DOMAIN fl : fl[f].airline_id # NULL /\ fl[f].origin_airport_id # NULL /\ fl[f].destination_airport_id # NULL }

NoDuplicateRoute == \A i, j \in DOMAIN routes : Key(routes[i]) = Key(routes[j]) => i = j

EveryFlightKeyHasOneRoute == \A f \in KeyedFlights(flights) : Cardinality(RoutesOfKey(routes, Key(flights[f]))) = 1

\* C1: no triple (carrier, origin, destination) ever has two Route rows;
\* right after backfill_routes_from_flights every triple of a flight with
\* the three fields non-null has exactly one Route row, and no later stage
\* of any kind undoes that.
C1_RouteUniqueness ==
    /\ [](NoDuplicateRoute /\ (last.op = "backfill_routes_from_flights" => EveryFlightKeyHasOneRoute))
    /\ [][EveryFlightKeyHasOneRoute => EveryFlightKeyHasOneRoute']_vars

\* Routes were derived for two distinct triples, and fleet stages ran after
\* that, the last one recording a change event.
C1_Witness ==
    /\ Len(routes) >= 2
    /\ EveryFlightKeyHasOneRoute
    /\ last.op = "generate_flight_changes"
    /\ Len(flight_changes) > 0

\* C2: backfill_routes_from_flights invoked right after itself (same
\* compute_distance) inserts zero rows and leaves the Route table as the
\* first invocation left it.
C2_DeriveRoutesIdempotent ==
    (last.op = "backfill_routes_from_flights" /\ last.again) => (last.rowcount = 0 /\ routes = prev.routes)

\* The second of two successive invocations, the first of which had
\* inserted rows.
C2_Witness ==
    /\ last.op = "backfill_routes_from_flights"
    /\ last.again
    /\ Len(routes) >= 2
    /\ routes = prev.routes

\* C3: the rows one backfill_routes_from_flights invocation inserts are the
\* distinct triples of the flights with the three fields non-null, minus
\* the triples already in Route, one row each; the rows that were there
\* keep their triples; an inserted row has distance NULL (with
\* compute_distance it has the distance that the trailing
\* compute_route_distances gives a row inserted with NULL: none when an
\* airport lacks coordinates).
C3_InsertedRoutes ==
    last.op = "backfill_routes_from_flights" =>
        LET old      == prev.routes
            added    == (Len(old) + 1)..Len(routes)
            expected == { Key(prev.flights[f]) : f \in KeyedFlights(prev.flights) } \ { Key(old[i]) : i \in DOMAIN old }
        IN  /\ Len(routes) >= Len(old)
            /\ \A i \in DOMAIN old : Key(routes[i]) = Key(old[i])
            /\ { Key(routes[i]) : i \in added } = expected
            /\ Cardinality(added) = Cardinality(expected)
            /\ last.rowcount = Cardinality(expected)
            /\ \A i \in added : \/ routes[i].distance_nm = NULL
                                \/ /\ last.arg = 1
                                   /\ i \in DistanceTargets([routes EXCEPT ![i].distance_nm = NULL], airports)

\* One invocation inserted a single row for two flights of the same
\* triple, next to the row of another triple that was there.
C3_Witness ==
    /\ last.op = "backfill_routes_from_flights"
    /\ last.arg = 0
    /\ last.rowcount = 1
    /\ Len(prev.routes) = 1
    /\ \E f, g \in KeyedFlights(flights) : f # g /\ Key(flights[f]) = Key(flights[g]) /\ Key(flights[f]) # Key(prev.routes[1])
    /\ routes[Len(routes)].distance_nm = NULL

\* C4: after backfill_route_ids_on_flights no flight has route_id NULL
\* while a Route with its triple exists; invoked again right away it
\* updates zero flights.
C4_RouteIdsBackfilled ==
    last.op = "backfill_route_ids_on_flights" =>
        /\ \A f \in DOMAIN flights : flights[f].route_id = NULL => RoutesOfKey(routes, Key(flights[f])) = {}
        /\ last.again => (last.rowcount = 0 /\ flights = prev.flights)

\* The second of two successive invocations, after routes were derived and
\* linked to flights.
C4_Witness ==
    /\ last.op = "backfill_route_ids_on_flights"
    /\ last.again
    /\ Len(routes) >= 2
    /\ \A f \in DOMAIN flights : flights[f].route_id # NULL

\* C5: assign_aircraft_to_flights leaves every flight whose aircraft_id was
\* non-null as it was; it updates the flights whose aircraft_id was NULL
\* and no others.
C5_AssignKeepsAssigned ==
    last.op = "assign_aircraft_to_flights" =>
        /\ \A f \in DOMAIN flights : prev.flights[f].aircraft_id # NULL => flights[f] = prev.flights[f]
        /\ last.rowcount = Cardinality({ f \in DOMAIN flights : prev.flights[f].aircraft_id = NULL })

\* An invocation on one assigned and one unassigned flight, which gave the
\* unassigned flight another aircraft than the assigned one has.
C5_Witness ==
    /\ last.op = "assign_aircraft_to_flights"
    /\ \E f, g \in DOMAIN flights : /\ prev.flights[f].aircraft_id # NULL
                                    /\ prev.flights[g].aircraft_id = NULL
                                    /\ flights[g].aircraft_id # NULL
                                    /\ flights[g].aircraft_id # flights[f].aircraft_id

\* C6: with a non-empty catalog, one assign_aircraft_to_flights leaves no
\* flight with aircraft_id NULL, and every flight it assigned has the id of
\* a catalog row.
C6_AssignAll ==
    (last.op = "assign_aircraft_to_flights" /\ Len(prev.aircraft) > 0) =>
        \A f \in DOMAIN flights : /\ flights[f].aircraft_id # NULL
                                  /\ prev.flights[f].aircraft_id = NULL => flights[f].aircraft_id \in DOMAIN aircraft

\* All flights were unassigned and got aircraft of the seeded catalog, one
\* of them its last row.
C6_Witness ==
    /\ last.op = "assign_aircraft_to_flights"
    /\ last.rowcount = NumFlights
    /\ aircraft = SeedFleet
    /\ \E f \in DOMAIN flights : flights[f].aircraft_id = Len(SeedFleet)

\* C7: backfill_aircraft inserts the five seed rows when the catalog is
\* empty and nothing when it holds any row; a catalog seeded from empty
\* keeps exactly those five rows over any number of invocations.
C7_SeedOnlyIfEmpty ==
    /\ last.op = "backfill_aircraft" =>
           IF Len(prev.aircraft) = 0
           THEN last.rowcount = 5 /\ Len(aircraft) = 5 /\ aircraft = SeedFleet
           ELSE last.rowcount = 0 /\ aircraft = prev.aircraft
    /\ (Len(aircraft) > 0 /\ aircraft[1] = SeedFleet[1]) => aircraft = SeedFleet

\* A repeated invocation on the seeded catalog.
C7_Witness ==
    /\ last.op = "backfill_aircraft"
    /\ last.again
    /\ last.rowcount = 0
    /\ aircraft = SeedFleet

\* An invocation on a loaded catalog that is not the seed fleet.
C7_WitnessLoaded ==
    /\ last.op = "backfill_aircraft"
    /\ aircraft = LoadedFleet

\* C8: every row of flight_changes has new_aircraft_id different from
\* old_aircraft_id.
C8_NewDiffersFromOld ==
    \A i \in DOMAIN flight_changes : flight_changes[i].new_aircraft_id # flight_changes[i].old_aircraft_id

\* Two change events were inserted.
C8_Witness == Len(flight_changes) >= 2

\* The latest change event of a flight: greatest changed_at, then highest
\* change_id.
LatestChange(fc, f) ==
    CHOOSE i \in DOMAIN fc :
        /\ fc[i].flight_id = f
        /\ \A j \in DOMAIN fc : fc[j].flight_id = f =>
              \/ fc[j].changed_at < fc[i].changed_at
              \/ (fc[j].changed_at = fc[i].changed_at /\ j <= i)

\* C9: after generate_flight_changes, every flight with a change event has
\* the new_aircraft_id of its latest event as aircraft_id.
C9_AircraftMatchesLatestChange ==
    last.op = "generate_flight_changes" =>
        \A f \in ChangedFlights(flights, flight_changes) :
            flights[f].aircraft_id = flight_changes[LatestChange(flight_changes, f)].new_aircraft_id

NewChangesOf(f) == { i \in (prev.nchanges + 1)..Len(flight_changes) : flight_changes[i].flight_id = f }

\* C10: with change_fraction = 1 and at least two aircraft in the catalog,
\* one generate_flight_changes inserts exactly one row for every flight
\* whose aircraft_id was non-null, and none for another flight.
C10_FullFractionOneEach ==
    (last.op = "generate_flight_changes" /\ last.arg = 1000 /\ Len(prev.aircraft) >= 2) =>
        /\ \A f \in DOMAIN flights :
              Cardinality(NewChangesOf(f)) = IF prev.flights[f].aircraft_id # NULL THEN 1 ELSE 0
        /\ last.rowcount = Cardinality({ f \in DOMAIN flights : prev.flights[f].aircraft_id # NULL })

\* Two flights were eligible and each got its row.
C10_Witness ==
    /\ last.op = "generate_flight_changes"
    /\ last.arg = 1000
    /\ last.rowcount >= 2
    /\ \A f \in DOMAIN flights : Cardinality(NewChangesOf(f)) = 1

\* One flight was eligible and the other was not.
C10_WitnessMixed ==
    /\ last.op = "generate_flight_changes"
    /\ last.arg = 1000
    /\ Len(prev.aircraft) >= 2
    /\ last.rowcount = 1
    /\ \E f \in DOMAIN flights : prev.flights[f].aircraft_id = NULL

\* C11: generate_flight_changes with change_fraction = 0 inserts no row
\* into flight_changes, whatever the flights and the catalog are.
C11_ZeroFractionNoChange ==
    (last.op = "generate_flight_changes" /\ last.arg = 0) =>
        (last.rowcount = 0 /\ Len(flight_changes) = prev.nchanges)

\* An invocation with change_fraction = 0 on flights that all have an
\* aircraft, with a catalog of several rows and events of earlier runs.
C11_Witness ==
    /\ last.op = "generate_flight_changes"
    /\ last.arg = 0
    /\ Len(prev.aircraft) >= 2
    /\ prev.nchanges > 0
    /\ \A f \in DOMAIN flights : prev.flights[f].aircraft_id # NULL

\* C12: generate_flight_changes inserts no row for a flight when the
\* catalog has no aircraft other than the one the flight has (so none at
\* all with fewer than two aircraft in the catalog and the flight's
\* aircraft among them); no row of flight_changes has new_aircraft_id NULL.
C12_NoEventWithoutOtherAircraft ==
    /\ last.op = "generate_flight_changes" =>
           \A f \in DOMAIN flights :
               OtherAircraft(prev.aircraft, prev.flights[f].aircraft_id) = {} => NewChangesOf(f) = {}
    /\ \A i \in DOMAIN flight_changes : flight_changes[i].new_aircraft_id # NULL

\* An invocation with change_fraction = 1 on a catalog of one row, with
\* every flight on that aircraft: all are sampled, none gets a row.
C12_Witness ==
    /\ last.op = "generate_flight_changes"
    /\ last.arg = 1000
    /\ Len(prev.aircraft) = 1
    /\ \A f \in DOMAIN flights : prev.flights[f].aircraft_id = 1
    /\ last.rowcount = 0
    /\ flight_changes = << >>

\* The store is as the stage function in progress (or the last one) found it.
StoreAsFound ==
    /\ flights = prev.flights
    /\ routes = prev.routes
    /\ aircraft = prev.aircraft
    /\ Len(flight_changes) = prev.nchanges

\* C13: every stage function is atomic: when a statement of it has
\* failed, the store is as the stage found it, and no committed state in
\* the middle of a stage differs from the store the stage found.
C13_StageAtomic ==
    \A p \in Procs : pc[p].at \in {"failed", "running"} => StoreAsFound

\* The second statement of generate_flight_changes failed after its first
\* had inserted rows.
C13_PartialChanges ==
    /\ pc[1].at = "failed"
    /\ pc[1].fn = "generate_flight_changes"
    /\ Len(flight_changes) > prev.nchanges
    /\ flights = prev.flights

\* What the stages of run() before the one in progress have committed is
\* in the store as they left it.
EarlierStagesKept ==
    /\ flights = prev.flights
    /\ routes = prev.routes
    /\ aircraft = prev.aircraft
    /\ Len(flight_changes) >= prev.nchanges

\* C14: when a statement of a stage of run() fails, the exception ends the
\* script (it is not caught), what the earlier stages committed is
\* unchanged, and nothing more is executed in that run().
C14_FailureStopsRun ==
    /\ []((pc[1].error # "" /\ pc[1].k > 0) => (pc[1].at = "failed" /\ EarlierStagesKept))
    /\ [][(pc[1].error # "" /\ pc'[1].run = pc[1].run) => UNCHANGED <<store, pc>>]_vars

\* The assignment of aircraft, fourth stage of the first run(), failed
\* after routes were derived and linked and the fleet was seeded.
C14_Witness ==
    /\ pc[1].at = "failed"
    /\ pc[1].run = 1
    /\ pc[1].k = 4
    /\ Len(routes) >= 2
    /\ aircraft = SeedFleet
    /\ \A f \in DOMAIN flights : flights[f].route_id # NULL /\ flights[f].aircraft_id = NULL

\* C15: compute_route_distances leaves every route whose distance_nm was
\* non-null as it was; invoked right after itself it updates zero routes.
C15_KnownDistanceKept ==
    last.op = "compute_route_distances" =>
        /\ \A i \in DOMAIN prev.routes : prev.routes[i].distance_nm # NULL => routes[i] = prev.routes[i]
        /\ last.again => (last.rowcount = 0 /\ routes = prev.routes)

\* The second of two successive invocations; one route keeps the curated
\* distance it was loaded with, between airports 60 nm apart, and another
\* route has the distance the first invocation computed.
C15_Witness ==
    /\ last.op = "compute_route_distances"
    /\ last.again
    /\ \E i, j \in DOMAIN routes : routes[i].distance_nm = 500 /\ routes[j].distance_nm = 60

\* Both airports of route r are in the store with latitude and longitude.
EndpointsKnown(r, ap) ==
    /\ r.origin_airport_id \in DOMAIN ap
    /\ r.destination_airport_id \in DOMAIN ap
    /\ ap[r.origin_airport_id].latitude # NULL
    /\ ap[r.origin_airport_id].longitude # NULL
    /\ ap[r.destination_airport_id].latitude # NULL
    /\ ap[r.destination_airport_id].longitude # NULL

\* C16: every compute_route_distances leaves distance_nm NULL on a route
\* with an airport that lacks latitude or longitude, and sets a non-null
\* distance_nm on a route with distance_nm NULL whose two airports have
\* them; a distance_nm once non-null is never changed again, so it is set
\* once.
C16_DistanceSetOnce ==
    /\ [](last.op = "compute_route_distances" =>
            \A i \in DOMAIN routes :
                prev.routes[i].distance_nm = NULL => (routes[i].distance_nm # NULL <=> EndpointsKnown(routes[i], airports)))
    /\ [][\A i \in DOMAIN routes : routes[i].distance_nm # NULL => routes'[i].distance_nm = routes[i].distance_nm]_vars

\* Airports that lacked coordinates got them, 60 nm apart; an invocation
\* computed the distance of a route between them, and the invocation
\* right after it changed nothing.
C16_Witness ==
    /\ last.op = "compute_route_distances"
    /\ last.again
    /\ last.rowcount = 0
    /\ \E i \in DOMAIN routes : routes[i].distance_nm = 60

\* The Route table and the route of every flight are ones that a run()
\* which is not interrupted gives on the store as the first run() found
\* it, and so is the Aircraft table.
AsUninterrupted ==
    /\ \E order \in Orders(MissingRouteKeys(begun.flights, begun.routes)) :
         /\ routes = InsertRoutes(begun.routes, order)
         /\ \E pick \in RouteIdPicks(begun.flights, routes) :
              \A f \in DOMAIN flights : flights[f].route_id = UpdateRouteIds(begun.flights, pick)[f].route_id
    /\ aircraft = begun.aircraft \o SeedRows(begun.aircraft)

\* C17: when run() was killed after a stage had committed (the last one
\* included) and is run again to its end, the Route table, the Aircraft
\* table and every flight's route_id are as an uninterrupted run() gives
\* them and every flight has an aircraft; in the second run() a stage
\* before generate_flight_changes that the first run() had committed
\* inserts and updates zero rows.
C17_RerunConverges ==
    (pc[1].run = 2 /\ pc[1].earlier \in {"interrupted", "done"}) =>
        /\ pc[1].at = "done" =>
               (AsUninterrupted /\ \A f \in DOMAIN flights : flights[f].aircraft_id # NULL)
        /\ (pc[1].k >= 2 /\ pc[1].k - 1 <= pc[1].completed /\ pc[1].todo = Transactions(pc[1].fn, pc[1].arg)) =>
               (last.op = RunStages[pc[1].k - 1].fn /\ last.rowcount = 0)

\* The first run() was killed after it had seeded the fleet; the second
\* derived no new route, assigned the aircraft and recorded a change.
C17_Witness ==
    /\ pc[1].at = "done"
    /\ pc[1].run = 2
    /\ pc[1].earlier = "interrupted"
    /\ pc[1].completed = 3
    /\ Len(routes) >= 2
    /\ aircraft = SeedFleet
    /\ Len(flight_changes) >= 1

\* C18: while two concurrent generate_flight_changes have both committed
\* their INSERT and neither its UPDATE of flights, the rows of a flight
\* that both sampled record the same old_aircraft_id, the aircraft the
\* flight still has; no lock or check excludes that state (the witness).
C18_DoubleProcessed ==
    (\A p \in Procs : Doing(p, "update_flights")) =>
        \A i, j \in DOMAIN flight_changes :
            flight_changes[i].flight_id = flight_changes[j].flight_id =>
                /\ flight_changes[i].old_aircraft_id = flight_changes[j].old_aircraft_id
                /\ flight_changes[i].old_aircraft_id = flights[flight_changes[i].flight_id].aircraft_id

\* Both invocations have finished and one flight has two rows with the
\* same old_aircraft_id and different new_aircraft_id.
C18_Witness ==
    /\ \A p \in Procs : pc[p].at = "idle" /\ pc[p].fn = "generate_flight_changes"
    /\ \E i, j \in DOMAIN flight_changes :
         /\ i # j
         /\ flight_changes[i].flight_id = flight_changes[j].flight_id
         /\ flight_changes[i].old_aircraft_id = flight_changes[j].old_aircraft_id
         /\ flight_changes[i].new_aircraft_id # flight_changes[j].new_aircraft_id

\* C19: with two concurrent backfill_routes_from_flights on a store that
\* enforces the uniqueness of the route key, no committed state has two
\* routes with the same key; on a store that does not, two invocations
\* that selected the same key and have both committed leave it twice in
\* routes: the anti-join does not prevent it.
C19_ConcurrentRoutes ==
    /\ "routes_natural_key" \in schema => NoDuplicateRoute
    /\ (/\ schema = {}
        /\ \A p \in Procs : pc[p].at = "idle" /\ pc[p].fn = "backfill_routes_from_flights"
        /\ Range(pc[1].rows) \cap Range(pc[2].rows) # {}) => ~NoDuplicateRoute

\* On the store with the constraint both invocations selected the same
\* key; one committed it, the other raised and inserted nothing.
C19_Witness ==
    /\ "routes_natural_key" \in schema
    /\ \E p, q \in Procs :
         /\ pc[p].at = "idle" /\ pc[p].fn = "backfill_routes_from_flights"
         /\ pc[q].at = "failed" /\ pc[q].error = "IntegrityError"
         /\ Range(pc[p].rows) \cap Range(pc[q].rows) # {}
    /\ Len(routes) >= 1

\* On the store without the constraint both invocations committed the
\* same key.
C19_WitnessNoConstraint ==
    /\ schema = {}
    /\ \A p \in Procs : pc[p].at = "idle" /\ pc[p].fn = "backfill_routes_from_flights"
    /\ ~NoDuplicateRoute

\* C20: once the module is loaded or has failed to load: a non-empty
\* DATABASE_URL is the url of ENGINE whatever AIRLINE_DB_DSN is; else a
\* non-empty AIRLINE_DB_DSN is; with neither variable set get_db_url has
\* raised RuntimeError, there is no ENGINE, and no stage has run or
\* touched the store.
C20_DbUrl ==
    pc[1].at # "import" =>
        /\ Truthy(env.DATABASE_URL) => (ENGINE = env.DATABASE_URL /\ pc[1].error = "")
        /\ (~Truthy(env.DATABASE_URL) /\ Truthy(env.AIRLINE_DB_DSN)) => (ENGINE = env.AIRLINE_DB_DSN /\ pc[1].error = "")
        /\ (env.DATABASE_URL = << >> /\ env.AIRLINE_DB_DSN = << >>) =>
               /\ pc[1].at = "failed"
               /\ pc[1].error = "RuntimeError"
               /\ ENGINE = << >>
               /\ pc[1].run = 0
               /\ last = NoReport
               /\ routes = << >> /\ flight_changes = << >>
               /\ \A f \in DOMAIN flights : flights[f].route_id = NULL /\ flights[f].aircraft_id = NULL

\* Both variables are set, to different urls; the module was loaded with
\* DATABASE_URL and run() has returned.
C20_Witness ==
    /\ Truthy(env.DATABASE_URL)
    /\ Truthy(env.AIRLINE_DB_DSN)
    /\ env.DATABASE_URL # env.AIRLINE_DB_DSN
    /\ ENGINE = env.DATABASE_URL
    /\ pc[1].at = "done"

\* DATABASE_URL is set to the empty string: AIRLINE_DB_DSN is used.
C20_WitnessFallback ==
    /\ env.DATABASE_URL = << "" >>
    /\ Truthy(env.AIRLINE_DB_DSN)
    /\ ENGINE = env.AIRLINE_DB_DSN
    /\ pc[1].at = "done"

\* Neither variable is set: loading the module failed.
C20_WitnessUnset ==
    /\ env.DATABASE_URL = << >>
    /\ env.AIRLINE_DB_DSN = << >>
    /\ pc[1].at = "failed"

\* The fields of a flight that no backfill may touch: all but route_id and
\* aircraft_id.
Frame(f) == [f EXCEPT !.route_id = NULL, !.aircraft_id = NULL]

\* C21: no stage inserts or deletes a flight, and no stage changes a field
\* of a flight other than route_id and aircraft_id.
C21_FlightFrame ==
    [][/\ DOMAIN flights' = DOMAIN flights
       /\ \A f \in DOMAIN flights : Frame(flights'[f]) = Frame(flights[f])]_vars

\* Every flight got its route_id, its aircraft_id and then another
\* aircraft_id from a change event; the first flight is otherwise as
\* loaded.
C21_Witness ==
    /\ last.op = "generate_flight_changes"
    /\ last.rowcount2 > 0
    /\ \A f \in DOMAIN flights : flights[f].route_id # NULL /\ flights[f].aircraft_id # NULL
    /\ Frame(flights[1]) = FlightRow(<<1, 1, 2>>, 1)

\* C22: flight_changes is append-only: every step of every stage leaves
\* the rows that were there in place, with all their fields.
C22_ChangesAppendOnly ==
    [][/\ Len(flight_changes') >= Len(flight_changes)
       /\ SubSeq(flight_changes', 1, Len(flight_changes)) = flight_changes]_vars

\* A second generate_flight_changes appended a row after the row of an
\* earlier one, for the same flight.
C22_Witness ==
    /\ last.op = "generate_flight_changes"
    /\ prev.nchanges = 1
    /\ Len(flight_changes) = 2
    /\ flight_changes[1].flight_id = flight_changes[2].flight_id

\* C23: assign_aircraft_to_flights on an empty catalog leaves every
\* aircraft_id NULL and reports 0 updated rows.
C23_AssignEmptyCatalog ==
    (last.op = "assign_aircraft_to_flights" /\ Len(prev.aircraft) = 0) =>
        /\ \A f \in DOMAIN flights : flights[f].aircraft_id = NULL
        /\ last.rowcount = 0

\* What the stage does on an empty catalog: every aircraft_id stays NULL
\* and the row count is the number of flights without an aircraft.
C23_AssignEmptyCatalogCounts ==
    (last.op = "assign_aircraft_to_flights" /\ Len(prev.aircraft) = 0) =>
        /\ flights = prev.flights
        /\ \A f \in DOMAIN flights : flights[f].aircraft_id = NULL
        /\ last.rowcount = Cardinality(DOMAIN flights)

\* Latitude and longitude of airport a.
CoordinatesOf(ap, a) == <<ap[a].latitude, ap[a].longitude>>

\* The last stage executed the UPDATE of compute_route_distances.
DistancesComputed ==
    \/ last.op = "compute_route_distances"
    \/ last.op = "backfill_routes_from_flights" /\ last.arg = 1

\* C24: the distance_nm that compute_route_distances stores on a route
\* whose distance_nm was NULL is 0 when its two airports have the same
\* coordinates, and 60 when they are (0, 0) and (1, 0), one degree of
\* latitude apart at the equator, in either direction.
C24_ReferenceDistances ==
    DistancesComputed =>
        \A i \in DOMAIN routes :
            ((i > Len(prev.routes) \/ prev.routes[i].distance_nm = NULL) /\ EndpointsKnown(routes[i], airports)) =>
                LET o == CoordinatesOf(airports, routes[i].origin_airport_id)
                    d == CoordinatesOf(airports, routes[i].destination_airport_id)
                IN  /\ o = d => routes[i].distance_nm = 0
                    /\ {o, d} = { <<0, 0>>, <<1, 0>> } => routes[i].distance_nm = 60

\* One invocation computed the distance 60 of the route between airports
\* at (0, 0) and (1, 0), the same of its return route, and 0 of a route
\* from an airport to itself.
C24_Witness ==
    /\ last.op = "compute_route_distances"
    /\ last.rowcount = 2
    /\ { CoordinatesOf(airports, a) : a \in DOMAIN airports } = { <<0, 0>>, <<1, 0>> }
    /\ \E i, j \in DOMAIN routes :
         /\ Key(routes[i]) = <<1, 2, 1>> /\ routes[i].distance_nm = 60 /\ prev.routes[i].distance_nm = NULL
         /\ Key(routes[j]) = <<1, 2, 2>> /\ routes[j].distance_nm = 0 /\ prev.routes[j].distance_nm = NULL

\* Two airports with the same coordinates: the route between them has
\* distance 0.
C24_WitnessSamePlace ==
    /\ DistancesComputed
    /\ CoordinatesOf(airports, 1) = CoordinatesOf(airports, 2)
    /\ \E i \in DOMAIN routes : Key(routes[i]) = <<1, 2, 1>> /\ routes[i].distance_nm = 0

\* Midnight of the flight date of the flight of change event c, in ticks.
FlightDateOf(c) == flights[c.flight_id].flight_date * 86400

ReasonIsListed == \A i \in DOMAIN flight_changes : flight_changes[i].reason \in Range(Reasons)

\* C25 as stated: every change event has changed_at in
\* [flight_date - 2 hours, flight_date - 2 hours + 90 minutes), before the
\* flight date, and one of the four reasons.
C25_ChangedAtHalfOpen ==
    /\ \A i \in DOMAIN flight_changes :
         /\ flight_changes[i].changed_at >= FlightDateOf(flight_changes[i]) - 2 * 3600
         /\ flight_changes[i].changed_at < FlightDateOf(flight_changes[i]) - 2 * 3600 + 90 * 60
         /\ flight_changes[i].changed_at < FlightDateOf(flight_changes[i])
    /\ ReasonIsListed

\* C25 amended: every change event has changed_at in the closed interval
\* [flight_date - 2 hours, flight_date - 2 hours + 90 minutes], so before
\* the flight date, and one of the four reasons.
C25_ChangedAtClosed ==
    /\ \A i \in DOMAIN flight_changes :
         /\ flight_changes[i].changed_at >= FlightDateOf(flight_changes[i]) - 2 * 3600
         /\ flight_changes[i].changed_at <= FlightDateOf(flight_changes[i]) - 2 * 3600 + 90 * 60
         /\ flight_changes[i].changed_at < FlightDateOf(flight_changes[i])
    /\ ReasonIsListed

\* Two events, one at each end of the interval, with the first and the
\* last reason of the list.
C25_Witness ==
    \E i, j \in DOMAIN flight_changes :
        /\ flight_changes[i].changed_at = FlightDateOf(flight_changes[i]) - 2 * 3600
        /\ flight_changes[i].reason = "Equipment Downgrade"
        /\ flight_changes[j].changed_at = FlightDateOf(flight_changes[j]) - 30 * 60
        /\ flight_changes[j].reason = "Maintenance"

\* The second run() of load_openflights.py has ended.
Reloaded == pc[1].run = 2 /\ pc[1].at \in {"done", "failed"}

\* C26: the second run of load_airports and load_airlines on the same
\* files does not fail and leaves the airports and the airlines as the
\* first run left them.
C26_ReloadKeepsRows ==
    Reloaded => (pc[1].at = "done" /\ airports = prev.airports /\ airlines = prev.airlines)

\* What the second run does: it never adds an airport; it fails when the
\* first run loaded an airport without IATA code, and else it adds every
\* airline of the file once more.
C26_ReloadAddsAirlines ==
    Reloaded =>
        /\ airports = prev.airports
        /\ pc[1].at = "failed" <=> \E i \in DOMAIN airports : airports[i].iata_code = None
        /\ pc[1].at = "done" => airlines = prev.airlines \o AirlineRows(files.AIRLINES_CSV)

\* The second run ended and the one airline of the file is there twice.
C26_AirlineTwice ==
    /\ Reloaded
    /\ pc[1].at = "done"
    /\ Len(airlines) = 2
    /\ airlines[1] = airlines[2]

PairOf(b) == <<b.passenger_id, b.flight_id>>

\* C27: the payloads of generate_booking_payloads hold no pair that was in
\* used_pairs at entry and no pair twice; attempts never exceeds
\* 10 * n_bookings, each turn of the loop counts one attempt, and the list
\* returned has at most n_bookings payloads, fewer only when the attempts
\* are used up.
C27_BookingPairsUnique ==
    /\ [](pc[1].fn = "generate_booking_payloads" =>
            /\ \A i \in DOMAIN bookings : PairOf(bookings[i]) \notin prev.used_pairs
            /\ \A i, j \in DOMAIN bookings : PairOf(bookings[i]) = PairOf(bookings[j]) => i = j
            /\ attempts <= 10 * n_bookings
            /\ Len(bookings) <= n_bookings
            /\ pc[1].at = "done" => (Len(bookings) = n_bookings \/ attempts = 10 * n_bookings))
    /\ [][(pc[1].at = "running" /\ pc'[1].at = "running") => attempts' = attempts + 1]_vars

\* Two bookings were asked for while one pair was unused: the call
\* returned one payload after twenty attempts.
C27_Witness ==
    /\ pc[1].at = "done"
    /\ n_bookings = 2
    /\ Cardinality(prev.used_pairs) = 3
    /\ Len(bookings) = 1
    /\ attempts = 20

\* Two bookings were asked for and returned, with the least number of
\* attempts.
C27_WitnessFull ==
    /\ pc[1].at = "done"
    /\ prev.used_pairs # {}
    /\ Len(bookings) = 2
    /\ attempts = 2

\* C28: every non-null aircraft_id of a flight, and old_aircraft_id and
\* new_aircraft_id of every change event, is the id of a row of the
\* catalog; the flight_id of every change event is the id of a flight.
C28_AircraftReferencesValid ==
    /\ \A f \in DOMAIN flights : flights[f].aircraft_id # NULL => flights[f].aircraft_id \in DOMAIN aircraft
    /\ \A i \in DOMAIN flight_changes :
         /\ flight_changes[i].old_aircraft_id \in DOMAIN aircraft
         /\ flight_changes[i].new_aircraft_id \in DOMAIN aircraft
         /\ flight_changes[i].flight_id \in DOMAIN flights

\* The catalog was seeded, every flight was assigned, and a change event
\* moved a flight to the last aircraft of the seed.
C28_Witness ==
    /\ aircraft = SeedFleet
    /\ \A f \in DOMAIN flights : flights[f].aircraft_id # NULL
    /\ \E i \in DOMAIN flight_changes :
         /\ flight_changes[i].new_aircraft_id = Len(SeedFleet)
         /\ flights[flight_changes[i].flight_id].aircraft_id = Len(SeedFleet)

\* The rows that the last generate_flight_changes inserted.
NewChanges == (prev.nchanges + 1)..Len(flight_changes)

\* C29: every row that one generate_flight_changes inserts has as
\* old_aircraft_id the aircraft_id its flight had when the invocation
\* began, and the invocation inserts at most one row per flight, for any
\* change_fraction.
C29_OldAircraftAsFound ==
    last.op = "generate_flight_changes" =>
        /\ \A i \in NewChanges : flight_changes[i].old_aircraft_id = prev.flights[flight_changes[i].flight_id].aircraft_id
        /\ \A f \in DOMAIN flights : Cardinality(NewChangesOf(f)) <= 1

\* A flight changed by an earlier invocation was sampled again: its new
\* row records the aircraft that the earlier event had given it.
C29_Witness ==
    /\ last.op = "generate_flight_changes"
    /\ last.arg = 50
    /\ prev.nchanges = 1
    /\ Len(flight_changes) = 2
    /\ flight_changes[2].flight_id = flight_changes[1].flight_id
    /\ flight_changes[2].old_aircraft_id = flight_changes[1].new_aircraft_id

\* The route of flight f is a row of routes with the flight's own key.
RouteOfFlightMatches(f) ==
    /\ flights[f].route_id \in DOMAIN routes
    /\ Key(routes[flights[f].route_id]) = Key(flights[f])

\* C30: backfill_route_ids_on_flights leaves every flight whose route_id
\* was non-null as it was, and every route_id it sets is the id of a route
\* with the flight's airline, origin and destination; so every non-null
\* route_id of a flight matches the flight's key, in every state.
C30_RouteIdsMatchKey ==
    /\ last.op = "backfill_route_ids_on_flights" =>
           \A f \in DOMAIN flights :
               /\ prev.flights[f].route_id # NULL => flights[f] = prev.flights[f]
               /\ (prev.flights[f].route_id = NULL /\ flights[f].route_id # NULL) => RouteOfFlightMatches(f)
    /\ \A f \in DOMAIN flights : flights[f].route_id # NULL => RouteOfFlightMatches(f)

\* An invocation linked a flight to a route derived after the other
\* flight had been linked to another route, which it kept.
C30_Witness ==
    /\ last.op = "backfill_route_ids_on_flights"
    /\ last.rowcount = 1
    /\ \E f, g \in DOMAIN flights :
         /\ prev.flights[f].route_id # NULL
         /\ prev.flights[g].route_id = NULL
         /\ flights[g].route_id # NULL
         /\ flights[g].route_id # flights[f].route_id

====
